---- MODULE Spec2Model ----
(***************************************************************************)
(* A model of @stdlib/random-base-cauchy: the generator factory            *)
(* (lib/factory.js), the parameter validator (lib/validate.js), the        *)
(* ratio-of-normals transform, and the state adapter over the underlying   *)
(* standard-normal generator with its copy / share semantics.              *)
(*                                                                         *)
(* Numbers are exact: a finite double is a rational n/d in lowest terms,   *)
(* and NaN, +Infinity and -Infinity are values of their own, combined by   *)
(* the IEEE-754 rules.  Arrays live in a heap, so that two holders of one  *)
(* array (a caller and a generator, or two generators) see each other's    *)
(* writes.                                                                 *)
(***************************************************************************)
EXTENDS Integers, Sequences, FiniteSets, TLC

VARIABLES
    heap,   \* array id -> contents (a sequence of words); NoBuf when unused
    gens,   \* generator id -> the closure variables of one factory() call
    held,   \* caller variable -> the array id it holds, 0 for null
    extst,  \* the state of the caller's own uniform PRNG (the `prng` option)
    ret     \* what the last call did and returned or threw

vars == <<heap, gens, held, extst, ret>>

(***************************************************************************)
(* Bounds of the model.                                                    *)
(***************************************************************************)
MaxN == 3

Gens == {1, 2}
Slots == {1}
BufIds == 1..(Cardinality(Gens) + Cardinality(Slots) + 1)

(***************************************************************************)
(* Values: JavaScript numbers and the non-numbers the validator meets.     *)
(***************************************************************************)
Abs(n) == IF n < 0 THEN -n ELSE n

Sign(n) == IF n < 0 THEN -1 ELSE IF n > 0 THEN 1 ELSE 0

RECURSIVE GCD(_, _)
GCD(a, b) == IF b = 0 THEN a ELSE GCD(b, a % b)

Rat(n, d) ==
    LET g == GCD(Abs(n), Abs(d))
    IN  [k |-> "num", n |-> (Sign(d) * n) \div g, d |-> Abs(d) \div g]

Num(n) == [k |-> "num", n |-> n, d |-> 1]
NaN == [k |-> "nan", n |-> 0, d |-> 1]
PInf == [k |-> "inf", n |-> 1, d |-> 1]
NInf == [k |-> "inf", n |-> -1, d |-> 1]
Str == [k |-> "str", n |-> 0, d |-> 1]
Undef == [k |-> "undef", n |-> 0, d |-> 1]

Inf(s) == IF s < 0 THEN NInf ELSE PInf

\* IEEE-754 division, multiplication and addition (zeros are unsigned here);
\* `undefined` converts to NaN.
NotANumber(v) == v.k \notin {"num", "inf"}

Div(a, b) ==
    IF NotANumber(a) \/ NotANumber(b) THEN NaN
    ELSE IF a.k = "inf" THEN
        IF b.k = "inf" THEN NaN
        ELSE Inf(a.n * (IF b.n < 0 THEN -1 ELSE 1))
    ELSE IF b.k = "inf" THEN Num(0)
    ELSE IF b.n = 0 THEN (IF a.n = 0 THEN NaN ELSE Inf(a.n))
    ELSE Rat(a.n * b.d, a.d * b.n)

Mul(a, b) ==
    IF NotANumber(a) \/ NotANumber(b) THEN NaN
    ELSE IF a.k = "inf" \/ b.k = "inf" THEN
        IF a.n = 0 \/ b.n = 0 THEN NaN ELSE Inf(Sign(a.n) * Sign(b.n))
    ELSE Rat(a.n * b.n, a.d * b.d)

Add(a, b) ==
    IF NotANumber(a) \/ NotANumber(b) THEN NaN
    ELSE IF a.k = "inf" /\ b.k = "inf" THEN (IF a.n = b.n THEN a ELSE NaN)
    ELSE IF a.k = "inf" THEN a
    ELSE IF b.k = "inf" THEN b
    ELSE Rat(a.n * b.d + b.n * a.d, a.d * b.d)

\* @stdlib/assert-is-number (primitive), is-nan, is-positive-number.
isNumber(v) == v.k \in {"num", "nan", "inf"}

isnan(v) == v.k = "nan"

isPositive(v) == v.k \in {"num", "inf"} /\ v.n > 0

\* The comparison `v <= 0.0` of a number.
LeqZero(v) == v.k \in {"num", "inf"} /\ v.n <= 0

(***************************************************************************)
(* The underlying generator (@stdlib/random-base-improved-ziggurat over    *)
(* MT19937), by its documented contract.  A state array is                 *)
(* <<word, seedLength, seed...>>: one word of generator state, then the    *)
(* seed section.  A normal deviate is a function of the word, and each     *)
(* deviate advances the word one step around a cycle.                      *)
(***************************************************************************)
NoBuf == <<>>

NormalTable == <<1, 2, 0, 0>>

StateWords == 0..(Len(NormalTable) - 1)

NextWord(x) == (x + 1) % Len(NormalTable)

Seeds == {<<2>>, <<1, 2>>}

RECURSIVE SumSeq(_)
SumSeq(s) == IF s = <<>> THEN 0 ELSE Head(s) + SumSeq(Tail(s))

\* The state a seed initialises.
createState(seed) == <<SumSeq(seed) % Len(NormalTable), Len(seed)>> \o seed

\* Whether an array is a well-formed state array.
verifyState(s) ==
    /\ Len(s) >= 3
    /\ s[1] \in StateWords
    /\ s[2] = Len(s) - 2

Null == [null |-> TRUE]

Some(v) == [null |-> FALSE, v |-> v]

(***************************************************************************)
(* The world: everything a call can read or write.                         *)
(***************************************************************************)
World == [heap |-> heap, gens |-> gens, held |-> held, extst |-> extst]

\* A generator: what factory() leaves in its closure.
\*   mode      "none" (not constructed), "owned" (state accessors installed),
\*             "degraded" (null constants installed)
\*   x0, gamma the bound parameters, Undef when unbound
\*   src       what rnorm draws from: "mt" (its own state array) or "ext"
\*             (the caller's uniform PRNG)
\*   buf       the id of the state array; copy, optState: the underlying
\*             generator's `copy` option and whether it holds a supplied state
NoGen ==
    [mode |-> "none", x0 |-> Undef, gamma |-> Undef, src |-> "mt",
     buf |-> 0, copy |-> TRUE, optState |-> FALSE]

Refs(w) == ({w.gens[g].buf : g \in Gens} \cup {w.held[k] : k \in Slots}) \ {0}

\* A fresh array id: the least one nothing refers to.
Alloc(w) ==
    CHOOSE b \in BufIds \ Refs(w) : \A c \in BufIds \ Refs(w) : b <= c

\* Arrays nothing refers to are garbage.
Collect(w) ==
    [w EXCEPT !.heap = [b \in BufIds |-> IF b \in Refs(w) THEN w.heap[b] ELSE NoBuf]]

Owned(w, g) == w.gens[g].mode = "owned"

Degraded(w, g) == w.gens[g].mode = "degraded"

Bound(w, g) == w.gens[g].x0 # Undef

\* The live state array of an internally owned generator.
Live(w, g) == IF w.gens[g].buf = 0 THEN NoBuf ELSE w.heap[w.gens[g].buf]

(***************************************************************************)
(* validate.js                                                             *)
(***************************************************************************)
validateNoNaN(x0, gamma) ==
    IF ~isNumber(x0) THEN "InvalidLocation"
    ELSE IF ~isPositive(gamma) THEN "InvalidScale"
    ELSE "none"

validateFinite(x0, gamma) ==
    IF x0.k # "num" THEN "InvalidLocation"
    ELSE IF ~isPositive(gamma) THEN "InvalidScale"
    ELSE "none"

validate(x0, gamma) ==
    IF ~isNumber(x0) \/ isnan(x0) THEN "InvalidLocation"
    ELSE IF ~isPositive(gamma) THEN "InvalidScale"
    ELSE "none"

(***************************************************************************)
(* Drawing.  rnorm() returns one standard-normal deviate and advances the  *)
(* generator it reads: the state array of an owned generator, the caller's *)
(* uniform PRNG of a degraded one.                                         *)
(***************************************************************************)
rnorm(w, g) ==
    IF w.gens[g].src = "mt" THEN
        LET b == w.gens[g].buf
            x == w.heap[b][1]
        IN  [w |-> [w EXCEPT !.heap[b][1] = NextWord(x)],
             val |-> Num(NormalTable[x + 1])]
    ELSE
        [w |-> [w EXCEPT !.extst = NextWord(w.extst)],
         val |-> Num(NormalTable[w.extst + 1])]

cauchy0Times(w, g, x0, gamma) ==
    LET r1 == rnorm(w, g)
        r2 == rnorm(r1.w, g)
    IN  [w |-> r2.w, val |-> Add(x0, Mul(gamma, Mul(r1.val, r2.val))), calls |-> 2]

\* cauchy.js: x0 + gamma * ( n1 / n2 ), n1 drawn before n2.
cauchy0(w, g, x0, gamma) ==
    LET r1 == rnorm(w, g)
        r2 == rnorm(r1.w, g)
    IN  [w |-> r2.w, val |-> Add(x0, Mul(gamma, Div(r1.val, r2.val))), calls |-> 2]

cauchy1Swapped(w, g) == cauchy0(w, g, w.gens[g].gamma, w.gens[g].x0)

cauchy1(w, g) == cauchy0(w, g, w.gens[g].x0, w.gens[g].gamma)

cauchy2Unchecked(w, g, x0, gamma) ==
    IF isnan(x0) \/ isnan(gamma)
    THEN [w |-> w, val |-> NaN, calls |-> 0]
    ELSE cauchy0(w, g, x0, gamma)

cauchy2NoNaN(w, g, x0, gamma) ==
    IF isnan(x0) \/ isnan(gamma) \/ LeqZero(gamma)
    THEN [w |-> w, val |-> NaN, calls |-> 0]
    ELSE LET r == cauchy0(w, g, x0, gamma)
         IN  IF r.val = NaN THEN [r EXCEPT !.val = x0] ELSE r

cauchy2DrawFirst(w, g, x0, gamma) ==
    LET r == cauchy0(w, g, x0, gamma)
    IN  IF isnan(x0) \/ isnan(gamma) \/ LeqZero(gamma)
        THEN [r EXCEPT !.val = NaN]
        ELSE r

cauchy2(w, g, x0, gamma) ==
    IF isnan(x0) \/ isnan(gamma) \/ LeqZero(gamma)
    THEN [w |-> w, val |-> NaN, calls |-> 0]
    ELSE cauchy0(w, g, x0, gamma)

prngByArgs(w, g, x0, gamma) ==
    IF w.gens[g].x0 = Undef \/ x0 # Undef THEN cauchy2(w, g, x0, gamma)
    ELSE cauchy1(w, g)

\* Calling the generator: `prng` is cauchy2 when x0 is undefined, else cauchy1.
prng(w, g, x0, gamma) ==
    IF w.gens[g].x0 = Undef THEN cauchy2(w, g, x0, gamma) ELSE cauchy1(w, g)

(***************************************************************************)
(* The callables.  rnorm is the normal generator randn() returned; its     *)
(* PRNG attribute is the uniform generator it draws from: the caller's     *)
(* function when one was given as `prng`, else a seeded generator of its   *)
(* own, whose state is the one `state` reads.                              *)
(***************************************************************************)
rnormFn(w, g) ==
    [kind |-> "normal", of |-> "randn", g |-> g,
     PRNG |-> IF w.gens[g].src = "ext"
              THEN [kind |-> "uniform", of |-> "opts.prng", g |-> 0]
              ELSE [kind |-> "uniform", of |-> "mt19937", g |-> g]]

\* rand = rnorm.PRNG
rand(w, g) == rnormFn(w, g).PRNG

\* setReadOnly( prng, 'NAME', 'cauchy' )
NAME(w, g) == "cauchy"

PRNGNormal(w, g) == rnormFn(w, g)

\* setReadOnly( prng, 'PRNG', rand )
PRNG(w, g) == rand(w, g)

(***************************************************************************)
(* The state adapter.                                                      *)
(***************************************************************************)
\* rand.seed, rand.seedLength, rand.stateLength, rand.byteLength, rand.state
getSeed(w, g) == SubSeq(Live(w, g), 3, Len(Live(w, g)))

getSeedLength(w, g) == Live(w, g)[2]

getStateLength(w, g) == Len(Live(w, g))

getStateSize(w, g) == 4 * Len(Live(w, g))

getStateInitial(w, g) == createState(getSeed(w, g))

\* The getter copies: the caller gets the contents, in an array of its own.
getState(w, g) == Live(w, g)

setStateRebind(w, g, a) ==
    LET gn == w.gens[g]
    IN  IF a = 0 \/ ~verifyState(w.heap[a]) THEN [w |-> w, err |-> "InvalidState"]
        ELSE IF ~gn.copy THEN
            [w |-> [w EXCEPT !.gens[g].buf = a, !.gens[g].optState = TRUE], err |-> "none"]
        ELSE LET b == Alloc(w)
             IN  [w |-> [w EXCEPT !.gens[g].buf = b, !.heap[b] = w.heap[a]], err |-> "none"]

setStateInPlace(w, g, a) ==
    LET gn == w.gens[g]
    IN  IF a = 0 \/ ~verifyState(w.heap[a]) THEN [w |-> w, err |-> "InvalidState"]
        ELSE [w |-> [w EXCEPT !.heap[gn.buf] = w.heap[a]], err |-> "none"]

setStateUnverified(w, g, a) ==
    LET gn == w.gens[g]
    IN  IF a = 0 THEN [w |-> w, err |-> "none"]
        ELSE IF ~gn.copy THEN
            IF gn.optState /\ Len(w.heap[a]) = Len(w.heap[gn.buf])
            THEN [w |-> [w EXCEPT !.heap[gn.buf] = w.heap[a]], err |-> "none"]
            ELSE [w |-> [w EXCEPT !.gens[g].buf = a, !.gens[g].optState = TRUE],
                  err |-> "none"]
        ELSE IF Len(w.heap[a]) # Len(w.heap[gn.buf])
            THEN LET b == Alloc(w)
                 IN  [w |-> [w EXCEPT !.gens[g].buf = b, !.heap[b] = w.heap[a]],
                      err |-> "none"]
            ELSE [w |-> [w EXCEPT !.heap[gn.buf] = w.heap[a]], err |-> "none"]

\* rand.state = s, s the array with id a (0: null, not an array).
setState(w, g, a) ==
    LET gn == w.gens[g]
    IN  IF a = 0 \/ ~verifyState(w.heap[a]) THEN [w |-> w, err |-> "InvalidState"]
        ELSE IF ~gn.copy THEN
            IF gn.optState /\ Len(w.heap[a]) = Len(w.heap[gn.buf])
            THEN [w |-> [w EXCEPT !.heap[gn.buf] = w.heap[a]], err |-> "none"]
            ELSE [w |-> [w EXCEPT !.gens[g].buf = a, !.gens[g].optState = TRUE],
                  err |-> "none"]
        ELSE IF Len(w.heap[a]) # Len(w.heap[gn.buf])
            THEN LET b == Alloc(w)
                 IN  [w |-> [w EXCEPT !.gens[g].buf = b, !.heap[b] = w.heap[a]],
                      err |-> "none"]
            ELSE [w |-> [w EXCEPT !.heap[gn.buf] = w.heap[a]], err |-> "none"]

\* @stdlib/array-to-json
typedarray2json(arr) == [type |-> "Uint32Array", data |-> arr]

toJSONNoParams(w, g) ==
    [type |-> "PRNG",
     name |-> "cauchy",
     state |-> typedarray2json(getState(w, g)),
     params |-> <<>>]

toJSON(w, g) ==
    [type |-> "PRNG",
     name |-> "cauchy",
     state |-> typedarray2json(getState(w, g)),
     params |-> IF w.gens[g].x0 = Undef THEN <<>> ELSE <<w.gens[g].x0, w.gens[g].gamma>>]

\* The properties factory() installs on the generator, by mode.
seed(w, g) == IF Degraded(w, g) THEN Null ELSE Some(getSeed(w, g))

seedLength(w, g) == IF Degraded(w, g) THEN Null ELSE Some(getSeedLength(w, g))

state(w, g) == IF Degraded(w, g) THEN Null ELSE Some(getState(w, g))

stateLength(w, g) == IF Degraded(w, g) THEN Null ELSE Some(getStateLength(w, g))

byteLength(w, g) == IF Degraded(w, g) THEN Null ELSE Some(getStateSize(w, g))

serialize(w, g) == IF Degraded(w, g) THEN Null ELSE Some(toJSON(w, g))

readStateLive(w, g, k) ==
    IF state(w, g) = Null THEN [w EXCEPT !.held[k] = 0]
    ELSE [w EXCEPT !.held[k] = w.gens[g].buf]

\* v = rand.state: the caller's variable k gets null, or an array of its own
\* with the contents of the state.
readState(w, g, k) ==
    LET w0 == [w EXCEPT !.held[k] = 0]
        b == Alloc(w0)
    IN  IF state(w, g) = Null THEN w0
        ELSE [w0 EXCEPT !.held[k] = b, !.heap[b] = state(w, g).v]

assignStateNoop(w, g, a) == [w |-> w, err |-> "none"]

\* Assigning `state`: noop in degraded mode, setState otherwise.
assignState(w, g, a) ==
    IF Degraded(w, g) THEN [w |-> w, err |-> "none"] ELSE setState(w, g, a)

(***************************************************************************)
(* Construction.  An options argument is either not a plain object, or an  *)
(* object whose keys are each absent or present:                           *)
(*   prng  "absent" | "fn" (the caller's uniform PRNG) | "notfn"           *)
(*   seed  <<>> (absent) | a seed                                          *)
(*   state 0 (absent) | k: the value of the caller's variable k            *)
(*   copy  "absent" | "true" | "false" | "bad" (not a boolean)             *)
(***************************************************************************)
NoOpts == [obj |-> TRUE, prng |-> "absent", seed |-> <<>>, state |-> 0, copy |-> "absent"]

NotAnObject == [obj |-> FALSE, prng |-> "absent", seed |-> <<>>, state |-> 0, copy |-> "absent"]

\* The object literal { 'prng': opts.prng } that factory() forwards.
PrngOnly(o) == [NoOpts EXCEPT !.prng = o.prng]

Failed(w, e) == [w |-> w, err |-> e]

randnShare(w, o, rseed) ==
    IF o.copy = "bad" THEN Failed(w, "InvalidOptions")
    ELSE IF o.prng = "notfn" THEN Failed(w, "InvalidOptions")
    ELSE IF o.prng = "fn" THEN
        [w |-> w, err |-> "none", gen |-> [NoGen EXCEPT !.src = "ext"]]
    ELSE IF o.state # 0 THEN
        LET a == w.held[o.state]
        IN  IF a = 0 \/ ~verifyState(w.heap[a]) THEN Failed(w, "InvalidState")
            ELSE [w |-> w, err |-> "none",
                  gen |-> [NoGen EXCEPT !.buf = a, !.copy = (o.copy # "false"),
                                        !.optState = TRUE]]
    ELSE
        LET b == Alloc(w)
            s == IF o.seed # <<>> THEN o.seed ELSE rseed
        IN  [w |-> [w EXCEPT !.heap[b] = createState(s)], err |-> "none",
             gen |-> [NoGen EXCEPT !.buf = b,
                                   !.copy = (o.copy # "false"), !.optState = FALSE]]

\* randn( options ): the underlying generator's own factory.  rseed is the
\* seed it picks at random when given none.
randn(w, o, rseed) ==
    IF o.copy = "bad" THEN Failed(w, "InvalidOptions")
    ELSE IF o.prng = "notfn" THEN Failed(w, "InvalidOptions")
    ELSE IF o.prng = "fn" THEN
        [w |-> w, err |-> "none", gen |-> [NoGen EXCEPT !.src = "ext"]]
    ELSE IF o.state # 0 THEN
        LET a == w.held[o.state]
        IN  IF a = 0 \/ ~verifyState(w.heap[a]) THEN Failed(w, "InvalidState")
            ELSE IF o.copy = "false" THEN
                [w |-> w, err |-> "none",
                 gen |-> [NoGen EXCEPT !.buf = a,
                                       !.copy = FALSE, !.optState = TRUE]]
            ELSE
                LET b == Alloc(w)
                IN  [w |-> [w EXCEPT !.heap[b] = w.heap[a]], err |-> "none",
                     gen |-> [NoGen EXCEPT !.buf = b,
                                           !.copy = TRUE, !.optState = TRUE]]
    ELSE
        LET b == Alloc(w)
            s == IF o.seed # <<>> THEN o.seed ELSE rseed
        IN  [w |-> [w EXCEPT !.heap[b] = createState(s)], err |-> "none",
             gen |-> [NoGen EXCEPT !.buf = b,
                                   !.copy = (o.copy # "false"), !.optState = FALSE]]

withOptionsForwardAll(w, o, rseed) ==
    IF ~o.obj THEN Failed(w, "InvalidOptions")
    ELSE IF o.prng \notin {"absent", "fn"} THEN Failed(w, "InvalidOptions")
    ELSE randn(w, o, rseed)

\* The options branch of factory(): lines 82-95 and 104-117.
withOptions(w, o, rseed) ==
    IF ~o.obj THEN Failed(w, "InvalidOptions")
    ELSE IF o.prng # "absent" THEN
        IF o.prng # "fn" THEN Failed(w, "InvalidOptions")
        ELSE randn(w, PrngOnly(o), rseed)
    ELSE randn(w, o, rseed)

externalOneArg(nargs, o) == nargs = 1 /\ o.obj /\ o.prng = "fn"

\* `opts && opts.prng`: the generator exposes no state.
external(nargs, o) == nargs \in {1, 3} /\ o.obj /\ o.prng = "fn"

factoryOptionsFirst(w, g, nargs, x0, gamma, o, rseed) ==
    LET e == IF nargs >= 2 THEN validate(x0, gamma) ELSE "none"
        rn == IF nargs \in {1, 3} THEN withOptions(w, o, rseed)
              ELSE randn(w, NoOpts, rseed)
    IN  IF rn.err # "none" THEN Failed(w, rn.err)
        ELSE IF e # "none" THEN Failed(w, e)
        ELSE [w |-> [rn.w EXCEPT !.gens[g] =
                        [rn.gen EXCEPT
                            !.mode = IF external(nargs, o) THEN "degraded"
                                     ELSE "owned",
                            !.x0 = IF nargs >= 2 THEN x0 ELSE Undef,
                            !.gamma = IF nargs >= 2 THEN gamma ELSE Undef]],
              err |-> "none"]

\* factory(): nargs arguments, of which x0, gamma (when nargs >= 2) and the
\* options o (when nargs is 1 or 3); the new generator gets the id g.
factory(w, g, nargs, x0, gamma, o, rseed) ==
    LET e == IF nargs >= 2 THEN validate(x0, gamma) ELSE "none"
        rn == IF nargs \in {1, 3} THEN withOptions(w, o, rseed)
              ELSE randn(w, NoOpts, rseed)
    IN  IF e # "none" THEN Failed(w, e)
        ELSE IF rn.err # "none" THEN Failed(w, rn.err)
        ELSE [w |-> [rn.w EXCEPT !.gens[g] =
                        [rn.gen EXCEPT
                            !.mode = IF external(nargs, o) THEN "degraded"
                                     ELSE "owned",
                            !.x0 = IF nargs >= 2 THEN x0 ELSE Undef,
                            !.gamma = IF nargs >= 2 THEN gamma ELSE Undef]],
              err |-> "none"]

(***************************************************************************)
(* The calls a program makes.                                              *)
(***************************************************************************)
X0Args == {Num(2), PInf, NaN, Str}

GammaArgs == {Num(3), Num(0), Num(-1), NaN, Str}

\* The arguments of a call of the generator: none, or x0 and gamma.
DrawArgs ==
    {<<Undef, Undef>>, <<Num(2), Num(3)>>, <<Num(0), Num(1)>>, <<NaN, Num(3)>>,
     <<Num(2), NaN>>, <<Num(2), Num(0)>>, <<Num(2), Num(-1)>>}

Opt(p, s, st, c) == [obj |-> TRUE, prng |-> p, seed |-> s, state |-> st, copy |-> c]

OptionsArgs ==
    {NotAnObject, NoOpts,
     Opt("notfn", <<>>, 0, "absent"),
     Opt("fn", <<>>, 0, "absent"),
     Opt("fn", <<2>>, 1, "false"),
     Opt("fn", <<>>, 0, "bad"),
     Opt("absent", <<2>>, 0, "absent"),
     Opt("absent", <<1, 2>>, 0, "absent"),
     Opt("absent", <<>>, 1, "absent"),
     Opt("absent", <<1, 2>>, 1, "true"),
     Opt("absent", <<>>, 1, "false"),
     Opt("absent", <<>>, 0, "false"),
     Opt("absent", <<>>, 0, "bad")}

\* Arrays a caller writes down: a state of each length, and an ill-formed one.
Literals == {createState(s) : s \in Seeds} \cup {<<0, 7, 1>>}

\* What the last call was (op, the generator g, the arguments nargs, x0,
\* gamma, opts) and what came of it (val returned, err thrown).
NoRet ==
    [op |-> "none", g |-> 0, nargs |-> 0, x0 |-> Undef, gamma |-> Undef,
     opts |-> NoOpts, val |-> Undef, err |-> "none"]

Commit(w, r) ==
    LET c == Collect(w)
    IN  /\ heap' = c.heap
        /\ gens' = c.gens
        /\ held' = c.held
        /\ extst' = c.extst
        /\ ret' = r

Constructed(w) == {g \in Gens : w.gens[g].mode # "none"}

Init ==
    /\ heap = [b \in BufIds |-> NoBuf]
    /\ gens = [g \in Gens |-> NoGen]
    /\ held = [k \in Slots |-> 0]
    /\ extst = 0
    /\ ret = NoRet

\* rand = factory( ... ): the program's next generator, one of gs, with nargs
\* arguments and the options of os.
Construct(gs, ns, os) ==
    /\ gs \ Constructed(World) # {}
    /\ \E nargs \in ns, x0 \in X0Args \cup {Undef}, gamma \in GammaArgs \cup {Undef},
       o \in os, rseed \in Seeds :
        /\ (nargs >= 2) = (x0 # Undef)
        /\ (nargs >= 2) = (gamma # Undef)
        /\ nargs \in {0, 2} => o = NoOpts
        /\ LET g == CHOOSE i \in gs \ Constructed(World) :
                        \A j \in gs \ Constructed(World) : i <= j
               r == factory(World, g, nargs, x0, gamma, o, rseed)
           IN  Commit(r.w, [NoRet EXCEPT !.op = "factory", !.err = r.err,
                                         !.g = IF r.err = "none" THEN g ELSE 0,
                                         !.nargs = nargs, !.x0 = x0,
                                         !.gamma = gamma, !.opts = o])

\* rand( x0, gamma ), or rand().
Call(as) ==
    \E g \in Constructed(World), a \in as :
        LET r == prng(World, g, a[1], a[2])
        IN  Commit(r.w, [NoRet EXCEPT !.op = "draw", !.g = g, !.x0 = a[1],
                                      !.gamma = a[2], !.val = r.val])

\* v = rand.state, v the caller's variable k.
GetState ==
    \E g \in Constructed(World), k \in Slots :
        Commit(readState(World, g, k), [NoRet EXCEPT !.op = "getState", !.g = g])

\* rand.state = v
SetState ==
    \E g \in Constructed(World), k \in Slots :
        LET r == assignState(World, g, held[k])
        IN  Commit(r.w, [NoRet EXCEPT !.op = "setState", !.g = g, !.err = r.err])

\* rand.toJSON()
Serialize ==
    \E g \in Constructed(World) :
        Commit(World, [NoRet EXCEPT !.op = "toJSON", !.g = g,
                                    !.val = serialize(World, g)])

\* v = new Uint32Array( [ ... ] )
NewArray ==
    \E k \in Slots, a \in Literals :
        LET w0 == [World EXCEPT !.held[k] = 0]
            b == Alloc(w0)
        IN  Commit([w0 EXCEPT !.held[k] = b, !.heap[b] = a],
                   [NoRet EXCEPT !.op = "newArray"])

\* v[ 0 ] = ...: the caller writes into an array it holds.
Scribble ==
    \E k \in Slots :
        /\ held[k] # 0
        /\ Commit([World EXCEPT !.heap[held[k]][1] = NextWord(NextWord(@))],
                  [NoRet EXCEPT !.op = "scribble"])

(***************************************************************************)
(* Spec: programs with one generator, built and called in every way.       *)
(***************************************************************************)
Factory == Construct({1}, 0..3, OptionsArgs)

Draw == Call(DrawArgs)

Next ==
    \/ Factory
    \/ Draw
    \/ GetState
    \/ SetState
    \/ Serialize
    \/ NewArray
    \/ Scribble

Spec == Init /\ [][Next]_vars

(***************************************************************************)
(* SpecShared: programs with two generators, each built from a state array *)
(* the caller supplies, copied or shared.                                  *)
(***************************************************************************)
SharedOptions ==
    {Opt("absent", <<>>, 1, "absent"),
     Opt("absent", <<>>, 1, "true"),
     Opt("absent", <<>>, 1, "false")}

SharedArgs == {<<Num(2), Num(3)>>, <<Num(2), Num(0)>>}

FactoryShared == Construct(Gens, {1}, SharedOptions)

DrawShared == Call(SharedArgs)

NextShared ==
    \/ FactoryShared
    \/ DrawShared
    \/ GetState
    \/ SetState
    \/ NewArray
    \/ Scribble

SpecShared == Init /\ [][NextShared]_vars

TypeOK ==
    /\ \A g \in Gens : gens[g].mode \in {"none", "owned", "degraded"}
    /\ \A g \in Gens : Owned(World, g) => verifyState(Live(World, g))

(***************************************************************************)
(* What the properties below range over.                                   *)
(***************************************************************************)
Numbers == {Num(-1), Num(0), Num(2), Num(3), NaN, PInf, NInf}

AllValues == Numbers \cup {Str}

ValidX0 == {Num(-1), Num(0), Num(2), PInf}

ValidGamma == {Num(1), Num(3), PInf}

AllOptions ==
    {NotAnObject}
    \cup [obj : {TRUE}, prng : {"absent", "fn", "notfn"}, seed : {<<>>} \cup Seeds,
          state : {0} \cup Slots, copy : {"absent", "true", "false", "bad"}]

Unbuilt == Gens \ Constructed(World)

\* n successive calls rand( x0, gamma ): the values returned, in order, and
\* the world they leave.
RECURSIVE Draws(_, _, _, _, _)
Draws(w, g, x0, gamma, n) ==
    IF n = 0 THEN [w |-> w, out |-> <<>>]
    ELSE LET r == prng(w, g, x0, gamma)
             rest == Draws(r.w, g, x0, gamma, n - 1)
         IN  [w |-> rest.w, out |-> <<r.val>> \o rest.out]

(***************************************************************************)
(* C1. Replay determinism: for an internally owned generator in any        *)
(* reachable state, s = rand.state, n draws with fixed (x0, gamma),        *)
(* rand.state = s, and n draws again with the same (x0, gamma) give the    *)
(* same n values, for every n from 1 to MaxN.                              *)
(***************************************************************************)
C1_ReplayDeterminism ==
    \A g \in Constructed(World) :
        Owned(World, g) =>
            \A x0 \in Numbers, gamma \in Numbers, n \in 1..MaxN, k \in Slots :
                LET w0 == readState(World, g, k)
                    first == Draws(w0, g, x0, gamma, n)
                    back == assignState(first.w, g, first.w.held[k])
                    again == Draws(back.w, g, x0, gamma, n)
                IN  /\ back.err = "none"
                    /\ Len(first.out) = n
                    /\ again.out = first.out

\* A generator that has been given back a state the caller held, by copy.
C1_Witness ==
    /\ ret.op = "setState"
    /\ ret.err = "none"
    /\ Owned(World, ret.g)
    /\ held[1] # 0
    /\ gens[ret.g].buf # held[1]
    /\ Live(World, ret.g) = heap[held[1]]
    /\ Draws(World, ret.g, Num(2), Num(3), 2).out = <<Rat(7, 2), NaN>>

(***************************************************************************)
(* C2. In the unbound call form rand( x0, gamma ), when x0 is NaN, or      *)
(* gamma is NaN, or gamma <= 0, the call returns NaN (it has no way to     *)
(* throw), in every reachable state, owned or degraded.                    *)
(***************************************************************************)
BadCall(x0, gamma) ==
    \/ x0 = NaN
    \/ gamma = NaN
    \/ (gamma.k \in {"num", "inf"} /\ gamma.n <= 0)

C2_NaNSentinel ==
    /\ \A g \in Constructed(World) :
        ~Bound(World, g) =>
            \A x0 \in Numbers, gamma \in Numbers :
                BadCall(x0, gamma) => prng(World, g, x0, gamma).val = NaN
    /\ (ret.op = "draw" /\ ~Bound(World, ret.g) /\ BadCall(ret.x0, ret.gamma))
            => ret.val = NaN

\* A degraded, unbound generator was called with a negative gamma.
C2_Witness ==
    /\ ret.op = "draw"
    /\ Degraded(World, ret.g)
    /\ ~Bound(World, ret.g)
    /\ ret.x0 = Num(2)
    /\ ret.gamma = Num(-1)
    /\ ret.val = NaN

(***************************************************************************)
(* C3. Construction fails, leaving no generator, when: x0 is NaN           *)
(* (InvalidLocation); gamma is zero, negative, NaN or not a number         *)
(* (InvalidScale); the options are not a plain object, or have a `prng`    *)
(* that is not callable (InvalidOptions).                                  *)
(*                                                                         *)
(* As stated, each case names its error whatever the other arguments are:  *)
(* that is C3_AsStated.  The parameters are validated in order and before  *)
(* the options, so the error named is the first one met: C3_FirstError.    *)
(***************************************************************************)
BadScale(gamma) == ~(gamma.k \in {"num", "inf"} /\ gamma.n > 0)

BadOptions(o) == ~o.obj \/ o.prng = "notfn"

GoodLocation(x0) == x0.k \in {"num", "inf"}

\* factory( o ) and factory( x0, gamma [, o] ) from the present state.
Attempt(nargs, x0, gamma, o) ==
    factory(World, CHOOSE g \in Gens : TRUE, nargs, x0, gamma, o, <<2>>)

C3_AsStated ==
    \A x0 \in AllValues, gamma \in AllValues, o \in AllOptions :
        /\ x0 = NaN =>
            /\ Attempt(2, x0, gamma, NoOpts).err = "InvalidLocation"
            /\ Attempt(3, x0, gamma, o).err = "InvalidLocation"
        /\ BadScale(gamma) =>
            /\ Attempt(2, x0, gamma, NoOpts).err = "InvalidScale"
            /\ Attempt(3, x0, gamma, o).err = "InvalidScale"
        /\ BadOptions(o) =>
            /\ Attempt(1, Undef, Undef, o).err = "InvalidOptions"
            /\ Attempt(3, x0, gamma, o).err = "InvalidOptions"

\* The options tried from a state: every combination before the program's
\* first call of factory(), the ones the program passes afterwards (a failed
\* call leaves the world as it was, a successful one adds a generator).
OptionsHere == IF ret.op # "factory" /\ Constructed(World) = {}
               THEN AllOptions ELSE OptionsArgs

C3_FirstError ==
    /\ \A o \in OptionsHere :
        BadOptions(o) =>
            Attempt(1, Undef, Undef, o) = Failed(World, "InvalidOptions")
    /\ \A x0 \in AllValues, gamma \in AllValues :
        /\ x0 = NaN =>
            /\ Attempt(2, x0, gamma, NoOpts) = Failed(World, "InvalidLocation")
            /\ \A o \in OptionsHere :
                Attempt(3, x0, gamma, o) = Failed(World, "InvalidLocation")
        /\ (GoodLocation(x0) /\ BadScale(gamma)) =>
            /\ Attempt(2, x0, gamma, NoOpts) = Failed(World, "InvalidScale")
            /\ \A o \in OptionsHere :
                Attempt(3, x0, gamma, o) = Failed(World, "InvalidScale")
        /\ (GoodLocation(x0) /\ ~BadScale(gamma)) =>
            \A o \in OptionsHere :
                BadOptions(o) =>
                    Attempt(3, x0, gamma, o) = Failed(World, "InvalidOptions")
    /\ (ret.op = "factory" /\ ret.nargs >= 2 /\ ret.x0 = NaN)
            => (ret.err = "InvalidLocation" /\ ret.g = 0)
    /\ (ret.op = "factory" /\ ret.nargs >= 2 /\ GoodLocation(ret.x0)
            /\ BadScale(ret.gamma))
            => (ret.err = "InvalidScale" /\ ret.g = 0)
    /\ (ret.op = "factory" /\ ret.nargs = 1 /\ BadOptions(ret.opts))
            => (ret.err = "InvalidOptions" /\ ret.g = 0)
    /\ (ret.op = "factory" /\ ret.nargs = 3 /\ BadOptions(ret.opts)
            /\ GoodLocation(ret.x0) /\ ~BadScale(ret.gamma))
            => (ret.err = "InvalidOptions" /\ ret.g = 0)
    /\ (ret.op = "factory" /\ ret.err # "none") => Constructed(World) = {}

\* factory( 2, 3, { 'prng': <not a function> } ) has thrown.
C3_Witness ==
    /\ ret.op = "factory"
    /\ ret.nargs = 3
    /\ ret.x0 = Num(2)
    /\ ret.gamma = Num(3)
    /\ ret.opts.prng = "notfn"
    /\ ret.err = "InvalidOptions"
    /\ Constructed(World) = {}

(***************************************************************************)
(* C4. Degraded mode: a generator constructed with `options.prng` a        *)
(* function reads null for seed, seedLength, state, stateLength and        *)
(* byteLength, toJSON() returns null, and assigning anything to `state`    *)
(* neither throws nor changes anything, after any calls.                   *)
(***************************************************************************)
AllNull(w, g) ==
    /\ seed(w, g) = Null
    /\ seedLength(w, g) = Null
    /\ state(w, g) = Null
    /\ stateLength(w, g) = Null
    /\ byteLength(w, g) = Null
    /\ serialize(w, g) = Null

C4_DegradedMode ==
    /\ \A g \in Constructed(World) :
        Degraded(World, g) =>
            /\ AllNull(World, g)
            /\ \A a \in {0} \cup {held[k] : k \in Slots} :
                    assignState(World, g, a) = [w |-> World, err |-> "none"]
            /\ \A k \in Slots : readState(World, g, k).held[k] = 0
    /\ \A g \in Unbuilt, nargs \in {1, 3}, o \in AllOptions :
        (o.obj /\ o.prng = "fn") =>
            LET r == factory(World, g, nargs,
                             IF nargs = 3 THEN Num(2) ELSE Undef,
                             IF nargs = 3 THEN Num(3) ELSE Undef, o, <<2>>)
            IN  r.err = "none" /\ Degraded(r.w, g) /\ AllNull(r.w, g)
    /\ (ret.op = "factory" /\ ret.err = "none" /\ ret.nargs \in {1, 3}
            /\ ret.opts.prng = "fn") => Degraded(World, ret.g)
    /\ (ret.op = "toJSON" /\ Degraded(World, ret.g)) => ret.val = Null

\* A well-formed state array was assigned to a degraded generator that had
\* drawn: the caller's PRNG has moved, and the generator reads null.
C4_Witness ==
    /\ ret.op = "setState"
    /\ ret.err = "none"
    /\ Degraded(World, ret.g)
    /\ extst # 0
    /\ held[1] # 0
    /\ verifyState(heap[held[1]])
    /\ state(World, ret.g) = Null

(***************************************************************************)
(* C5. Seed determinism does not depend on binding: for every seed s and   *)
(* valid (x0, gamma), factory( x0, gamma, {seed: s} ) called as rand() and *)
(* factory( {seed: s} ) called as rand( x0, gamma ) return the same value  *)
(* at each of the first MaxN draws, and have equal state after each.       *)
(***************************************************************************)
SeedOpt(s) == [NoOpts EXCEPT !.seed = s]

C5_BindingIndependent ==
    \A g \in Unbuilt, s \in Seeds, x0 \in ValidX0, gamma \in ValidGamma,
       n \in 1..MaxN :
        LET b == factory(World, g, 3, x0, gamma, SeedOpt(s), <<2>>)
            u == factory(World, g, 1, Undef, Undef, SeedOpt(s), <<1, 2>>)
            db == Draws(b.w, g, Undef, Undef, n)
            du == Draws(u.w, g, x0, gamma, n)
        IN  /\ b.err = "none" /\ u.err = "none"
            /\ Bound(b.w, g) /\ ~Bound(u.w, g)
            /\ db.out = du.out
            /\ db.out[1] = Add(x0, Mul(gamma, Div(Num(NormalTable[createState(s)[1] + 1]),
                                  Num(NormalTable[NextWord(createState(s)[1]) + 1]))))
            /\ state(db.w, g) = state(du.w, g)
            /\ state(db.w, g) # Null

\* factory( 2, 3, {seed: <<2>>} ) has been called as rand() once: the state
\* word has moved two steps from the seed's, and the value is the one the
\* unbound twin returns for ( 2, 3 ).
C5_Witness ==
    /\ ret.op = "draw"
    /\ ret.x0 = Undef
    /\ Bound(World, ret.g)
    /\ Owned(World, ret.g)
    /\ gens[ret.g].x0 = Num(2) /\ gens[ret.g].gamma = Num(3)
    /\ getSeed(World, ret.g) = <<2>>
    /\ Live(World, ret.g)[1] = NextWord(NextWord(createState(<<2>>)[1]))
    /\ ret.val = NaN

(***************************************************************************)
(* C6. Sharing law: two generators constructed with `copy: false` over the *)
(* same state array are not independent.  A draw by one advances the state *)
(* the other reads, so the other's next draw differs from what it would    *)
(* have been; a same-length assignment to `state` of one updates the state *)
(* of the other; and after any draws and same-length assignments both      *)
(* still use the one array and read the same `state`.                      *)
(***************************************************************************)
Sharing(w, g, h) ==
    /\ g # h
    /\ Owned(w, g) /\ Owned(w, h)
    /\ ~w.gens[g].copy /\ ~w.gens[h].copy
    /\ w.gens[g].buf = w.gens[h].buf

FiniteX0 == {Num(-1), Num(0), Num(2)}

FiniteGamma == {Num(1), Num(3)}

ShareOpt == Opt("absent", <<>>, 1, "false")

C6_SharingLaw ==
    /\ \A g \in Unbuilt, h \in Constructed(World), rs \in Seeds :
        (Owned(World, h) /\ ~gens[h].copy /\ held[1] = gens[h].buf) =>
            LET r == factory(World, g, 1, Undef, Undef, ShareOpt, rs)
            IN  r.err = "none" /\ Sharing(r.w, g, h)
    /\ \A g \in Gens, h \in Gens :
        Sharing(World, g, h) =>
            /\ state(World, g) = state(World, h)
            /\ \A x0 \in FiniteX0, gamma \in FiniteGamma :
                LET d == prng(World, g, x0, gamma)
                IN  /\ Sharing(d.w, g, h)
                    /\ state(d.w, h) = state(d.w, g)
                    /\ state(d.w, h) # state(World, h)
                    /\ prng(d.w, h, x0, gamma).val # prng(World, h, x0, gamma).val
            /\ \A k \in Slots :
                (/\ held[k] # 0
                 /\ verifyState(heap[held[k]])
                 /\ Len(heap[held[k]]) = Len(Live(World, g))) =>
                    LET r == assignState(World, g, held[k])
                    IN  /\ r.err = "none"
                        /\ Sharing(r.w, g, h)
                        /\ state(r.w, h) = Some(heap[held[k]])
                        /\ state(r.w, g) = Some(heap[held[k]])

\* Two sharing generators, one of which has just been assigned an array of
\* the same length that the caller holds apart from the shared one, after
\* the shared state had moved on from that array's contents by a draw.
C6_Witness ==
    /\ Sharing(World, 1, 2)
    /\ ret.op = "setState"
    /\ ret.err = "none"
    /\ held[1] # 0
    /\ held[1] # gens[1].buf
    /\ heap[held[1]] = createState(<<2>>)
    /\ Live(World, 2) = createState(<<2>>)

(***************************************************************************)
(* C7. Detachment law: when one of two generators sharing a state array    *)
(* is assigned a valid state of a different length, it is rebound to the   *)
(* array provided; the old shared array is not updated, the other          *)
(* generator's state and outputs are unaffected by the assignment and by   *)
(* later draws of the rebound generator, and the assigning generator's     *)
(* stateLength reads the new length.                                       *)
(***************************************************************************)
C7_DetachmentLaw ==
    \A g \in Gens, h \in Gens, k \in Slots :
        (/\ Sharing(World, g, h)
         /\ held[k] # 0
         /\ verifyState(heap[held[k]])
         /\ Len(heap[held[k]]) # Len(Live(World, g))) =>
            LET old == gens[g].buf
                r == assignState(World, g, held[k])
            IN  /\ r.err = "none"
                /\ r.w.gens[g].buf = held[k]
                /\ r.w.heap[old] = heap[old]
                /\ r.w.gens[h].buf = old
                /\ state(r.w, h) = state(World, h)
                /\ state(r.w, g) = Some(heap[held[k]])
                /\ stateLength(r.w, g) = Some(Len(heap[held[k]]))
                /\ stateLength(r.w, h) = stateLength(World, h)
                /\ ~Sharing(r.w, g, h)
                /\ \A x0 \in FiniteX0, gamma \in FiniteGamma, n \in 1..MaxN :
                    LET dg == Draws(r.w, g, x0, gamma, n)
                    IN  /\ state(dg.w, h) = state(World, h)
                        /\ state(prng(r.w, g, x0, gamma).w, g) # state(r.w, g)
                        /\ Draws(dg.w, h, x0, gamma, n).out
                                = Draws(World, h, x0, gamma, n).out
                        /\ Draws(r.w, h, x0, gamma, n).out
                                = Draws(World, h, x0, gamma, n).out

\* Generator 1 of two built over one array has been assigned the caller's
\* array of another length and now uses it; generator 2 keeps the old one.
C7_Witness ==
    /\ ret.op = "setState"
    /\ ret.err = "none"
    /\ ret.g = 1
    /\ Owned(World, 1) /\ Owned(World, 2)
    /\ ~gens[1].copy /\ ~gens[2].copy
    /\ held[1] # 0
    /\ gens[1].buf = held[1]
    /\ gens[2].buf # held[1]
    /\ Len(Live(World, 1)) # Len(Live(World, 2))

(***************************************************************************)
(* C8. For an owned generator in any reachable state, toJSON() returns a   *)
(* structure with type "PRNG", name "cauchy", state the encoding of the    *)
(* snapshot the `state` getter returns at that moment, and params [] if    *)
(* the generator is unbound, [x0, gamma] with the construction-time values *)
(* if it is bound; and the call leaves the generator state as it was.      *)
(***************************************************************************)
C8_Structure ==
    /\ \A g \in Constructed(World) :
        Owned(World, g) =>
            LET j == serialize(World, g)
            IN  /\ j # Null
                /\ j.v.type = "PRNG"
                /\ j.v.name = "cauchy"
                /\ j.v.state = [type |-> "Uint32Array", data |-> state(World, g).v]
                /\ ~Bound(World, g) => j.v.params = <<>>
                /\ Bound(World, g) => j.v.params = <<gens[g].x0, gens[g].gamma>>
    /\ (ret.op = "factory" /\ ret.err = "none" /\ ret.nargs >= 2
            /\ Owned(World, ret.g))
            => serialize(World, ret.g).v.params = <<ret.x0, ret.gamma>>
    /\ (ret.op = "factory" /\ ret.err = "none" /\ ret.nargs < 2
            /\ Owned(World, ret.g))
            => serialize(World, ret.g).v.params = <<>>
    /\ (ret.op = "toJSON" /\ Owned(World, ret.g))
            => ret.val = serialize(World, ret.g)

C8_Serialize ==
    /\ []C8_Structure
    /\ [][ret'.op = "toJSON" =>
            (heap' = heap /\ gens' = gens /\ held' = held /\ extst' = extst)]_vars

\* toJSON() has returned for a generator bound to ( 2, 3 ) that has drawn.
C8_Witness ==
    /\ ret.op = "toJSON"
    /\ Owned(World, ret.g)
    /\ Bound(World, ret.g)
    /\ ret.val.v.params = <<Num(2), Num(3)>>
    /\ ret.val.v.state.data = Live(World, ret.g)
    /\ Live(World, ret.g)[1] # createState(getSeed(World, ret.g))[1]

(***************************************************************************)
(* C9. One initialization path is honored, prng > state > seed > default.  *)
(* With `prng` supplied, `state`, `seed` and `copy` of the same options    *)
(* are ignored: only `prng` is forwarded, and the generator is degraded.   *)
(* With `state` and no `prng`, `seed` is ignored and the initial state     *)
(* equals the one supplied.  `seed` is used only with neither.             *)
(***************************************************************************)
C9_InitPrecedence ==
    /\ \A g \in Unbuilt, nargs \in {1, 3}, o \in AllOptions \ {NotAnObject},
          rs \in Seeds :
        LET x0 == IF nargs = 3 THEN Num(2) ELSE Undef
            gamma == IF nargs = 3 THEN Num(3) ELSE Undef
            r == factory(World, g, nargs, x0, gamma, o, rs)
            given == held[o.state]
        IN  /\ o.prng = "fn" =>
                /\ r.err = "none"
                /\ Degraded(r.w, g)
                /\ r.w.gens[g].src = "ext"
                /\ r.w.gens[g].buf = 0
                /\ r.w.heap = heap
                /\ r = factory(World, g, nargs, x0, gamma, PrngOnly(o), rs)
            /\ (o.prng = "absent" /\ o.state # 0 /\ o.copy # "bad"
                    /\ given # 0 /\ verifyState(heap[given])) =>
                /\ r.err = "none"
                /\ Owned(r.w, g)
                /\ state(r.w, g) = Some(heap[given])
                /\ r = factory(World, g, nargs, x0, gamma,
                               [o EXCEPT !.seed = <<>>], rs)
            /\ (o.prng = "absent" /\ o.state = 0 /\ o.copy # "bad"
                    /\ o.seed # <<>>) =>
                /\ r.err = "none"
                /\ Owned(r.w, g)
                /\ state(r.w, g) = Some(createState(o.seed))
                /\ seed(r.w, g) = Some(o.seed)
            /\ (o.prng = "absent" /\ o.state = 0 /\ o.copy # "bad"
                    /\ o.seed = <<>>) =>
                /\ r.err = "none"
                /\ Owned(r.w, g)
                /\ state(r.w, g) = Some(createState(rs))
    /\ (ret.op = "factory" /\ ret.opts.obj /\ ret.opts.prng = "fn"
            /\ (ret.nargs = 1
                \/ (ret.nargs = 3 /\ validate(ret.x0, ret.gamma) = "none")))
            => (ret.err = "none" /\ Degraded(World, ret.g))
    /\ (ret.op = "factory" /\ ret.nargs \in {1, 3} /\ ret.err = "none"
            /\ ret.opts.prng = "absent" /\ ret.opts.state # 0)
            => /\ held[ret.opts.state] # 0
               /\ state(World, ret.g) = Some(heap[held[ret.opts.state]])
    /\ (ret.op = "factory" /\ ret.nargs \in {1, 3} /\ ret.err = "none"
            /\ ret.opts.prng = "absent" /\ ret.opts.state = 0
            /\ ret.opts.seed # <<>>)
            => state(World, ret.g) = Some(createState(ret.opts.seed))

\* factory( { prng, seed, state, copy: false } ) has returned a degraded
\* generator while the caller holds a well-formed state array.
C9_Witness ==
    /\ ret.op = "factory"
    /\ ret.opts = Opt("fn", <<2>>, 1, "false")
    /\ ret.err = "none"
    /\ Degraded(World, ret.g)
    /\ held[1] # 0
    /\ verifyState(heap[held[1]])

(***************************************************************************)
(* C10. Exclusive ownership under the default `copy: true`: a generator    *)
(* constructed from a caller's state array without `copy: false` has a     *)
(* private copy.  Its draws and state assignments never modify the         *)
(* caller's array, and later writes to the caller's array, or draws by     *)
(* another generator built from that array, never change its outputs or    *)
(* its state.                                                              *)
(***************************************************************************)
Private(w, g) == Owned(w, g) /\ w.gens[g].copy

HeldArrays(w) == {w.held[k] : k \in Slots} \ {0}

C10_ExclusiveOwnership ==
    /\ \A g \in Unbuilt, o \in SharedOptions, rs \in Seeds :
        (o.copy # "false" /\ held[o.state] # 0
                /\ verifyState(heap[held[o.state]])) =>
            LET r == factory(World, g, 1, Undef, Undef, o, rs)
            IN  /\ r.err = "none"
                /\ Private(r.w, g)
                /\ r.w.gens[g].buf \notin HeldArrays(r.w)
                /\ state(r.w, g) = Some(heap[held[o.state]])
                /\ r.w.heap[held[o.state]] = heap[held[o.state]]
    /\ \A g \in Constructed(World) :
        Private(World, g) =>
            /\ gens[g].buf \notin HeldArrays(World)
            /\ \A h \in Constructed(World) \ {g} : gens[h].buf # gens[g].buf
            /\ \A x0 \in FiniteX0, gamma \in FiniteGamma, n \in 1..MaxN :
                LET mine == Draws(World, g, x0, gamma, n)
                IN  /\ \A a \in HeldArrays(World) : mine.w.heap[a] = heap[a]
                    /\ \A a \in HeldArrays(World) :
                        LET w1 == [World EXCEPT !.heap[a][1] = NextWord(NextWord(@))]
                        IN  /\ state(w1, g) = state(World, g)
                            /\ Draws(w1, g, x0, gamma, n).out = mine.out
                    /\ \A h \in Constructed(World) \ {g} :
                        LET other == Draws(World, h, x0, gamma, n)
                        IN  /\ state(other.w, g) = state(World, g)
                            /\ Draws(other.w, g, x0, gamma, n).out = mine.out
            /\ \A a \in HeldArrays(World) :
                LET r == assignState(World, g, a)
                IN  /\ r.w.heap[a] = heap[a]
                    /\ r.w.gens[g].buf \notin HeldArrays(r.w)
                    /\ Private(r.w, g)
                    /\ verifyState(heap[a]) =>
                            (r.err = "none" /\ state(r.w, g) = Some(heap[a]))

\* Generator 1 copied the caller's array and generator 2 uses that array
\* itself; generator 2 has drawn since, and generator 1 has not moved.
C10_Witness ==
    /\ ret.op = "draw"
    /\ ret.g = 2
    /\ ret.val # NaN
    /\ Private(World, 1)
    /\ Owned(World, 2)
    /\ ~gens[2].copy
    /\ gens[2].buf = held[1]
    /\ Live(World, 1) = createState(<<1, 2>>)
    /\ Live(World, 2) # Live(World, 1)

(***************************************************************************)
(* C11. State cloning: for an owned generator g in any reachable state, a  *)
(* new generator created with factory( { state: g.state } ) returns, for   *)
(* the same (x0, gamma) at each call, the same sequence of values as g     *)
(* returns from that point on.                                             *)
(***************************************************************************)
CopyOptions == {"absent", "true", "false"}

\* h = factory( { 'state': g.state, 'copy': c } ), or with nargs = 3
\* factory( x0, gamma, { 'state': g.state, 'copy': c } ).
Clone(w, g, h, nargs, x0, gamma, c) ==
    LET k == CHOOSE s \in Slots : TRUE
        w1 == readState(w, g, k)
    IN  factory(w1, h, nargs, x0, gamma, Opt("absent", <<>>, k, c), <<2>>)

C11_StateCloning ==
    /\ \A g \in Constructed(World), h \in Unbuilt, c \in CopyOptions :
        Owned(World, g) =>
            /\ \A x0 \in Numbers, gamma \in Numbers, n \in 1..MaxN :
                LET r == Clone(World, g, h, 1, Undef, Undef, c)
                    mine == Draws(r.w, g, x0, gamma, n)
                    its == Draws(r.w, h, x0, gamma, n)
                IN  /\ r.err = "none"
                    /\ Owned(r.w, h)
                    /\ r.w.gens[h].buf # r.w.gens[g].buf
                    /\ state(r.w, h) = state(World, g)
                    /\ its.out = mine.out
                    /\ mine.out = Draws(World, g, x0, gamma, n).out
                    /\ Draws(mine.w, h, x0, gamma, n).out = mine.out
                    /\ state(its.w, h) = state(mine.w, g)
            /\ \A x0 \in FiniteX0, gamma \in FiniteGamma, n \in 1..MaxN :
                LET r == Clone(World, g, h, 3, x0, gamma, c)
                IN  /\ r.err = "none"
                    /\ Draws(r.w, h, Undef, Undef, n).out
                            = Draws(World, g, x0, gamma, n).out
    /\ (/\ ret.op = "factory" /\ ret.err = "none" /\ ret.opts.state # 0
        /\ held[ret.opts.state] # 0)
            => \A x0 \in Numbers, gamma \in Numbers, n \in 1..MaxN :
                \A g \in Constructed(World) \ {ret.g} :
                    state(World, g) = Some(heap[held[ret.opts.state]]) =>
                        Draws(World, ret.g, x0, gamma, n).out
                            = Draws(World, g, x0, gamma, n).out

\* Generator 1 has drawn; its state was read into the caller's variable and
\* generator 2 has just been constructed from that array, as a copy.
C11_Witness ==
    /\ ret.op = "factory"
    /\ ret.err = "none"
    /\ ret.g = 2
    /\ ret.opts.state = 1
    /\ Owned(World, 1) /\ Private(World, 2)
    /\ held[1] # 0
    /\ held[1] # gens[1].buf
    /\ heap[held[1]] = Live(World, 1)
    /\ Live(World, 2) = Live(World, 1)
    /\ Live(World, 1)[1] # createState(getSeed(World, 1))[1]

(***************************************************************************)
(* C12. The `state` getter returns a copy of the current snapshot, never   *)
(* the live array: for every owned generator, also one built with          *)
(* `copy: false`, writing into the array returned, without assigning it    *)
(* back, changes neither the generator's later outputs nor the value later *)
(* read from `state`, and later draws do not change the array returned.    *)
(***************************************************************************)
C12_GetterCopies ==
    /\ \A g \in Constructed(World), k \in Slots :
        Owned(World, g) =>
            LET w1 == readState(World, g, k)
                a == w1.held[k]
                w2 == [w1 EXCEPT !.heap[a][1] = NextWord(NextWord(@))]
            IN  /\ a # 0
                /\ a # w1.gens[g].buf
                /\ \A h \in Gens : w1.gens[h].buf # a
                /\ w1.heap[a] = Live(World, g)
                /\ w1.gens = gens
                /\ state(w1, g) = state(World, g)
                /\ w2.heap[a] # w1.heap[a]
                /\ state(w2, g) = state(World, g)
                /\ \A x0 \in Numbers, gamma \in Numbers, n \in 1..MaxN :
                    LET d1 == Draws(w1, g, x0, gamma, n)
                        d2 == Draws(w2, g, x0, gamma, n)
                    IN  /\ d2.out = d1.out
                        /\ d1.out = Draws(World, g, x0, gamma, n).out
                        /\ state(d2.w, g) = state(d1.w, g)
                        /\ d1.w.heap[a] = w1.heap[a]
                        /\ d2.w.heap[a] = w2.heap[a]
    /\ (ret.op = "getState" /\ Owned(World, ret.g)) =>
            \E k \in Slots :
                /\ held[k] # 0
                /\ held[k] # gens[ret.g].buf
                /\ heap[held[k]] = Live(World, ret.g)

\* The state of a generator built with copy: false, which has drawn, has
\* just been read: the caller holds an array that is not the live one.
C12_Witness ==
    /\ ret.op = "getState"
    /\ Owned(World, ret.g)
    /\ ~gens[ret.g].copy
    /\ gens[ret.g].optState
    /\ held[1] # 0
    /\ held[1] # gens[ret.g].buf
    /\ heap[held[1]] = Live(World, ret.g)
    /\ Live(World, ret.g)[1] # createState(getSeed(World, ret.g))[1]

(***************************************************************************)
(* C13. validate( x0, gamma ) fails with InvalidLocation for every x0 that *)
(* is not a finite real number (non-numeric, NaN, +Infinity, -Infinity);   *)
(* otherwise with InvalidScale for every gamma that is not a strictly      *)
(* positive number (zero, negative, NaN, non-numeric); otherwise it        *)
(* succeeds; and it has no side effects.                                   *)
(*                                                                         *)
(* That is C13_AsStated.  The test of x0 is `!isNumber( x0 ) ||            *)
(* isnan( x0 )`, which the infinities pass: C13_Validate has the location  *)
(* fail for the non-numeric and NaN only.                                  *)
(***************************************************************************)
Finite(v) == v.k = "num"

\* validate as factory( x0, gamma ) applies it, first of all.
Validated(x0, gamma) == Attempt(2, x0, gamma, NoOpts).err

C13_AsStated ==
    /\ \A x0 \in AllValues, gamma \in AllValues :
        /\ ~Finite(x0) => Validated(x0, gamma) = "InvalidLocation"
        /\ (Finite(x0) /\ BadScale(gamma)) => Validated(x0, gamma) = "InvalidScale"
        /\ (Finite(x0) /\ ~BadScale(gamma)) => Validated(x0, gamma) = "none"
    /\ (ret.op = "factory" /\ ret.nargs = 2 /\ ~Finite(ret.x0))
            => ret.err = "InvalidLocation"

C13_Validate ==
    /\ \A x0 \in AllValues, gamma \in AllValues :
        /\ (x0 \in {Str, NaN}) => validate(x0, gamma) = "InvalidLocation"
        /\ (x0 \notin {Str, NaN} /\ BadScale(gamma))
                => validate(x0, gamma) = "InvalidScale"
        /\ (x0 \notin {Str, NaN} /\ ~BadScale(gamma))
                => validate(x0, gamma) = "none"
        /\ validate(x0, gamma) # "none"
                => Attempt(2, x0, gamma, NoOpts) = Failed(World, validate(x0, gamma))
    /\ validate(PInf, Num(3)) = "none"
    /\ validate(NInf, Num(3)) = "none"
    /\ validate(Num(2), PInf) = "none"
    /\ (ret.op = "factory" /\ ret.nargs = 2)
            => /\ ret.err = validate(ret.x0, ret.gamma)
               /\ ret.err # "none" => Constructed(World) = {}

\* factory( Infinity, 3 ) has returned a generator bound to ( Infinity, 3 ).
C13_Witness ==
    /\ ret.op = "factory"
    /\ ret.nargs = 2
    /\ ret.x0 = PInf
    /\ ret.gamma = Num(3)
    /\ ret.err = "none"
    /\ Owned(World, ret.g)
    /\ gens[ret.g].x0 = PInf

(***************************************************************************)
(* C14. Every constructed generator, in all construction forms and in      *)
(* owned and degraded mode alike, has the read-only attribute NAME equal   *)
(* to "cauchy" and the read-only attribute PRNG, which is the underlying   *)
(* normal-source callable, the one the generator draws its two normal      *)
(* deviates from.                                                          *)
(*                                                                         *)
(* That is C14_AsStated.  The attribute is set to rnorm.PRNG, the uniform  *)
(* generator under the normal source, not to rnorm: C14_Attributes.        *)
(***************************************************************************)
C14_AsStated ==
    \A g \in Constructed(World) :
        /\ NAME(World, g) = "cauchy"
        /\ PRNG(World, g) = rnormFn(World, g)

C14_Attributes ==
    /\ \A g \in Constructed(World) :
        /\ NAME(World, g) = "cauchy"
        /\ PRNG(World, g) = rnormFn(World, g).PRNG
        /\ PRNG(World, g).kind = "uniform"
        /\ PRNG(World, g) # rnormFn(World, g)
        /\ Degraded(World, g) => PRNG(World, g).of = "opts.prng"
        /\ Owned(World, g) => PRNG(World, g).of = "mt19937"
    /\ \A g \in Unbuilt, nargs \in 0..3, o \in AllOptions :
        LET r == factory(World, g, nargs,
                         IF nargs >= 2 THEN Num(2) ELSE Undef,
                         IF nargs >= 2 THEN Num(3) ELSE Undef,
                         IF nargs \in {1, 3} THEN o ELSE NoOpts, <<2>>)
        IN  r.err = "none" =>
                /\ NAME(r.w, g) = "cauchy"
                /\ PRNG(r.w, g) = rnormFn(r.w, g).PRNG
                /\ (o.prng = "fn" /\ nargs \in {1, 3})
                        <=> PRNG(r.w, g).of = "opts.prng"

\* factory( 2, 3, { 'prng': f } ) has returned a degraded, bound generator.
C14_Witness ==
    /\ ret.op = "factory"
    /\ ret.err = "none"
    /\ ret.nargs = 3
    /\ ret.opts.prng = "fn"
    /\ Degraded(World, ret.g)
    /\ Bound(World, ret.g)
    /\ NAME(World, ret.g) = "cauchy"
    /\ PRNG(World, ret.g).of = "opts.prng"

(***************************************************************************)
(* C15. Assigning to `state` of an owned generator a value that is not a   *)
(* well-formed state array fails with InvalidState, and the generator's    *)
(* state and later outputs are as if the assignment had not happened.      *)
(***************************************************************************)
IllFormed(w, a) == a = 0 \/ ~verifyState(w.heap[a])

C15_InvalidState ==
    /\ \A g \in Constructed(World), a \in {0} \cup HeldArrays(World) :
        (Owned(World, g) /\ IllFormed(World, a)) =>
            LET r == assignState(World, g, a)
            IN  /\ r.err = "InvalidState"
                /\ r.w = World
                /\ state(r.w, g) = state(World, g)
                /\ \A x0 \in Numbers, gamma \in Numbers, n \in 1..MaxN :
                    Draws(r.w, g, x0, gamma, n).out
                        = Draws(World, g, x0, gamma, n).out
    /\ \A k \in Slots :
        (ret.op = "setState" /\ Owned(World, ret.g)) =>
            (ret.err = "InvalidState" <=> IllFormed(World, held[k]))
    /\ (ret.op = "setState" /\ ret.err = "InvalidState")
            => state(World, ret.g) # Some(<<0, 7, 1>>)

\* An array that is not a state has been assigned to a generator that had
\* drawn: the assignment threw.
C15_Witness ==
    /\ ret.op = "setState"
    /\ ret.err = "InvalidState"
    /\ Owned(World, ret.g)
    /\ held[1] # 0
    /\ heap[held[1]] = <<0, 7, 1>>
    /\ Live(World, ret.g)[1] # createState(getSeed(World, ret.g))[1]

(***************************************************************************)
(* C16. For every finite x0 and every gamma > 0, in every reachable        *)
(* generator state, calling the generator, bound as rand() or unbound as   *)
(* rand( x0, gamma ), never throws and returns a number that is finite or  *)
(* infinite, never NaN.                                                    *)
(*                                                                         *)
(* That is C16_AsStated.  The value is x0 + gamma * ( n1 / n2 ), and the   *)
(* quotient of two zero deviates is NaN: C16_NumberOrNaN has the call      *)
(* return NaN exactly then, and a finite or infinite number otherwise.     *)
(***************************************************************************)
\* The two deviates the next call of g will draw.
N1(w, g) == rnorm(w, g).val

N2(w, g) == rnorm(rnorm(w, g).w, g).val

Zero(v) == v = Num(0)

\* The next call of g with finite x0 and gamma > 0: rand( x0, gamma ) of an
\* unbound g, rand() of a g bound to them.
ValidCall(w, g, x0, gamma) ==
    IF Bound(w, g) THEN prng(w, g, Undef, Undef) ELSE prng(w, g, x0, gamma)

Applies(w, g, x0, gamma) ==
    Bound(w, g) => (w.gens[g].x0 = x0 /\ w.gens[g].gamma = gamma)

RECURSIVE Invocations(_, _, _, _, _)
Invocations(w, g, x0, gamma, n) ==
    IF n = 0 THEN 0
    ELSE LET r == prng(w, g, x0, gamma)
         IN  r.calls + Invocations(r.w, g, x0, gamma, n - 1)

\* Where the source of g stands: the state word, or the caller's PRNG.
Position(w, g) == IF w.gens[g].src = "mt" THEN Live(w, g)[1] ELSE w.extst

RECURSIVE Advance(_, _)
Advance(x, n) == IF n = 0 THEN x ELSE Advance(NextWord(x), n - 1)

C17_TwoDeviates ==
    /\ \A g \in Constructed(World), x0 \in ValidX0, gamma \in ValidGamma :
        Applies(World, g, x0, gamma) =>
            LET r == ValidCall(World, g, x0, gamma)
                first == rnorm(World, g)
                second == rnorm(first.w, g)
            IN  /\ r.calls = 2
                /\ r.val = Add(x0, Mul(gamma, Div(first.val, second.val)))
                /\ r.w = second.w
                /\ Position(r.w, g) = Advance(Position(World, g), 2)
                /\ first.val = Num(NormalTable[Position(World, g) + 1])
                /\ second.val = Num(NormalTable[NextWord(Position(World, g)) + 1])
                /\ \A k \in 1..MaxN :
                    LET a == IF Bound(World, g) THEN Undef ELSE x0
                        b == IF Bound(World, g) THEN Undef ELSE gamma
                    IN  /\ Invocations(World, g, a, b, k) = 2 * k
                        /\ Position(Draws(World, g, a, b, k).w, g)
                                = Advance(Position(World, g), 2 * k)
    /\ (ret.op = "draw" /\ ret.val.k \in {"num", "inf"} /\ ~Bound(World, ret.g))
            => \E p \in StateWords :
                /\ Position(World, ret.g) = Advance(p, 2)
                /\ ret.val = Add(ret.x0, Mul(ret.gamma,
                        Div(Num(NormalTable[p + 1]),
                            Num(NormalTable[NextWord(p) + 1]))))

\* rand( 2, 3 ) of an owned generator has returned 2 + 3 * ( 1 / 2 ): the
\* deviates of state words 0 and 1, in that order, and the word is now 2.
C17_Witness ==
    /\ ret.op = "draw"
    /\ Owned(World, ret.g)
    /\ ret.x0 = Num(2)
    /\ ret.gamma = Num(3)
    /\ ret.val = Rat(7, 2)
    /\ Position(World, ret.g) = 2

(***************************************************************************)
(* C18. Bound parameters are immutable: for a generator built by           *)
(* factory( x0, gamma [, options] ), after any calls (also calls that pass *)
(* arguments), state assignments and serializations, every draw still uses *)
(* the construction-time (x0, gamma), arguments passed to it being         *)
(* ignored, and toJSON().params is still [x0, gamma]; and an unbound       *)
(* generator never becomes bound.                                          *)
(***************************************************************************)
CallArgs == AllValues \cup {Undef}

C18_BoundNow ==
    /\ \A g \in Constructed(World) :
        /\ Bound(World, g) =>
            /\ \A x0 \in CallArgs, gamma \in CallArgs :
                /\ prng(World, g, x0, gamma)
                        = cauchy0(World, g, gens[g].x0, gens[g].gamma)
                /\ prng(World, g, x0, gamma).w.gens[g] = gens[g]
            /\ Owned(World, g) =>
                    serialize(World, g).v.params = <<gens[g].x0, gens[g].gamma>>
            /\ \A k \in Slots :
                LET r == assignState(World, g, held[k])
                IN  /\ r.w.gens[g].x0 = gens[g].x0
                    /\ r.w.gens[g].gamma = gens[g].gamma
        /\ ~Bound(World, g) =>
            /\ \A x0 \in CallArgs, gamma \in CallArgs :
                ~Bound(prng(World, g, x0, gamma).w, g)
            /\ \A k \in Slots : ~Bound(assignState(World, g, held[k]).w, g)
            /\ Owned(World, g) => serialize(World, g).v.params = <<>>
    /\ (ret.op = "factory" /\ ret.err = "none") =>
        /\ Bound(World, ret.g) <=> ret.nargs >= 2
        /\ gens[ret.g].x0 = ret.x0
        /\ gens[ret.g].gamma = ret.gamma
    /\ (ret.op = "draw" /\ Bound(World, ret.g)) =>
        \E p \in StateWords :
            /\ Position(World, ret.g) = Advance(p, 2)
            /\ ret.val = Add(gens[ret.g].x0, Mul(gens[ret.g].gamma,
                    Div(Num(NormalTable[p + 1]),
                        Num(NormalTable[NextWord(p) + 1]))))

C18_BoundImmutable ==
    /\ []C18_BoundNow
    /\ [][\A g \in Constructed(World) :
            /\ gens'[g].mode = gens[g].mode
            /\ gens'[g].x0 = gens[g].x0
            /\ gens'[g].gamma = gens[g].gamma]_vars

\* A generator bound to ( 2, 3 ) has been called as rand( 0, 1 ) and has
\* returned 2 + 3 * ( 1 / 2 ).
C18_Witness ==
    /\ ret.op = "draw"
    /\ Bound(World, ret.g)
    /\ gens[ret.g].x0 = Num(2)
    /\ gens[ret.g].gamma = Num(3)
    /\ ret.x0 = Num(0)
    /\ ret.gamma = Num(1)
    /\ ret.val = Rat(7, 2)

(***************************************************************************)
(* C19. An unbound call that returns the NaN sentinel because of invalid   *)
(* parameters (x0 NaN, gamma NaN, or gamma <= 0) draws nothing from the    *)
(* underlying source and leaves the generator state unchanged, so the      *)
(* values the valid calls return are the same whether or not invalid calls *)
(* come between them, also for generators sharing a state array.           *)
(***************************************************************************)
\* n valid calls of g, each preceded by the invalid call ( bx, bg ).
RECURSIVE Interleaved(_, _, _, _, _, _, _)
Interleaved(w, g, x0, gamma, bx, bg, n) ==
    IF n = 0 THEN [w |-> w, out |-> <<>>]
    ELSE LET bad == prng(w, g, bx, bg)
             r == prng(bad.w, g, x0, gamma)
             rest == Interleaved(r.w, g, x0, gamma, bx, bg, n - 1)
         IN  [w |-> rest.w, out |-> <<r.val>> \o rest.out]

BadPairs == {<<NaN, Num(3)>>, <<Num(2), NaN>>, <<Num(2), Num(0)>>, <<Num(2), Num(-1)>>}

C19_SentinelNow ==
    /\ \A g \in Constructed(World) :
        ~Bound(World, g) =>
            /\ \A bx \in Numbers, bg \in Numbers :
                BadCall(bx, bg) =>
                    LET bad == prng(World, g, bx, bg)
                    IN  /\ bad.val = NaN
                        /\ bad.calls = 0
                        /\ bad.w = World
            /\ \A b \in BadPairs, x0 \in FiniteX0, gamma \in FiniteGamma :
                LET mixed == Interleaved(World, g, x0, gamma, b[1], b[2], MaxN)
                    plain == Draws(World, g, x0, gamma, MaxN)
                IN  /\ mixed.out = plain.out
                    /\ mixed.w = plain.w
    /\ (ret.op = "draw" /\ ~Bound(World, ret.g) /\ BadCall(ret.x0, ret.gamma))
            => ret.val = NaN

C19_SentinelDrawsNothing ==
    /\ []C19_SentinelNow
    /\ [][(ret'.op = "draw" /\ BadCall(ret'.x0, ret'.gamma)
                /\ ~Bound(World, ret'.g))
            => (heap' = heap /\ gens' = gens /\ held' = held /\ extst' = extst)]_vars

\* One of two generators sharing a state array that has moved on has been
\* called as rand( 2, 0 ) and has returned NaN.
C19_Witness ==
    /\ ret.op = "draw"
    /\ ret.x0 = Num(2)
    /\ ret.gamma = Num(0)
    /\ ret.val = NaN
    /\ Sharing(World, 1, 2)
    /\ Position(World, ret.g) # createState(getSeed(World, ret.g))[1]

(***************************************************************************)
(* C20. In the form factory( x0, gamma, options ) the parameters are       *)
(* validated before the options are examined and before any underlying     *)
(* generator is constructed: an invalid x0 fails with InvalidLocation      *)
(* whatever gamma and the options are; a valid x0 with an invalid gamma    *)
(* fails with InvalidScale whatever the options are; InvalidOptions, or    *)
(* the underlying generator's failure on a seed or state, is reported only *)
(* when both parameters are valid; and with two or more arguments the      *)
(* first two are always taken as (x0, gamma), never as options.            *)
(***************************************************************************)
OptionErrors == {"InvalidOptions", "InvalidState"}

C20_ParametersFirst ==
    /\ \A g \in Unbuilt, x0 \in AllValues, gamma \in AllValues :
        LET v == validate(x0, gamma)
        IN  /\ \A o \in OptionsHere :
                LET r3 == factory(World, g, 3, x0, gamma, o, <<2>>)
                IN  IF v # "none" THEN r3 = Failed(World, v)
                    ELSE LET ro == withOptions(World, o, <<2>>)
                         IN  /\ r3.err = ro.err
                             /\ r3.err # "none" =>
                                    (r3.w = World /\ r3.err \in OptionErrors)
                             /\ r3.err = "none" =>
                                    (r3.w.gens[g].x0 = x0
                                        /\ r3.w.gens[g].gamma = gamma)
            /\ LET r2 == factory(World, g, 2, x0, gamma, NoOpts, <<2>>)
                IN  /\ r2 = factory(World, g, 2, x0, gamma, NotAnObject, <<2>>)
                    /\ r2.err = v
                    /\ r2.err # "none" => r2.w = World
                    /\ r2.err = "none" =>
                        (r2.w.gens[g].x0 = x0 /\ r2.w.gens[g].gamma = gamma
                            /\ Owned(r2.w, g))
    /\ (ret.op = "factory" /\ ret.nargs >= 2) =>
        /\ validate(ret.x0, ret.gamma) # "none"
                => ret.err = validate(ret.x0, ret.gamma)
        /\ ret.err \in OptionErrors
                => (ret.nargs = 3 /\ validate(ret.x0, ret.gamma) = "none")
        /\ ret.err = "none" => Bound(World, ret.g)

\* factory( NaN, gamma, options ) with options that are not an object or
\* have a `prng` that is no function has thrown for the location.
C20_Witness ==
    /\ ret.op = "factory"
    /\ ret.nargs = 3
    /\ ret.x0 = NaN
    /\ BadOptions(ret.opts)
    /\ ret.err = "InvalidLocation"
    /\ Constructed(World) = {}

====
